---------------------------- MODULE Spec2Model ----------------------------
(***************************************************************************)
(* Model of the music queue of src/queue/src/app/MusicQueue.tsx: the React *)
(* component MusicQueue (its state hooks, its two effects and its five     *)
(* handlers) and the queue helpers getGenres, shuffleArray,                *)
(* getAvailableSongs, refillQueue and rebuildQueueWithGenreFilter.         *)
(*                                                                         *)
(* A Song is a record [id, genre]; title, artist, album and coverImage are *)
(* never read by the queue logic.  null is the record Null.                *)
(*                                                                         *)
(* Scheduling.  Every handler runs to completion on the state of the last  *)
(* render (React batches the setState calls of one handler), so a handler  *)
(* is one action.  The maintainQueueLength effect (lines 40-49) is a       *)
(* separate action: it runs after a render in which one of its             *)
(* dependencies was replaced, which effectPending records.  Handlers are   *)
(* allowed whether or not the effect is pending, i.e. every interleaving   *)
(* of handlers and replenishment passes is explored.                       *)
(***************************************************************************)
EXTENDS Integers, Sequences, FiniteSets, TLC

\* ------------------------------------------------------------------ bounds
\* The source uses the literal 10 for the queue's refill length (lines 41,
\* 43, 56; slice(1, 11) at line 26) and for the history cap (lines 69, 97).
\* The model scales both down so that a full queue and a full history are
\* reached with a catalog small enough to enumerate every shuffle.
MinLength == 2
HistoryLimit == 2
\* Largest catalog loaded.
MaxSongs == 4

\* ----------------------------------------------------------------- helpers
Min(a, b) == IF a < b THEN a ELSE b

Range(s) == {s[i] : i \in 1..Len(s)}

Ids(s) == {s[i].id : i \in 1..Len(s)}

\* Array.prototype.slice(from, to) with 0 <= from <= to: the elements at the
\* 0-based indices from .. to-1 that exist.
slice(s, from, to) == SubSeq(s, from + 1, Min(to, Len(s)))

\* Array.prototype.includes
includes(s, x) == \E i \in 1..Len(s) : s[i] = x

\* null (current: Song | null, line 12)
Null == [id |-> 0, genre |-> "null"]

\* The genre strings of the catalogs, in ascending code-unit order (the
\* order Array.prototype.sort() uses when given no comparator).
GenreUniverse == <<"jazz", "rock">>

GenreRank(g) == CHOOSE i \in 1..Len(GenreUniverse) : GenreUniverse[i] = g

\* A song id that no catalog holds.
AbsentId == MaxSongs + 1

\* The catalogs fetchSongs can return: ids 1..n in order (unique ids); the
\* first k songs are "rock" and the others "jazz", for every n and k.
Catalogs ==
    UNION { { [i \in 1..n |-> [id |-> i,
                               genre |-> IF i <= k THEN "rock" ELSE "jazz"]] :
                k \in 0..n } : n \in 0..MaxSongs }

SongIds == 1..MaxSongs \cup {AbsentId}

\* ------------------------------------------------------------- queueUtils
\* new Set(songs.map(s => s.genre)) turned into an array: the distinct
\* genres in order of first occurrence.
RECURSIVE distinctGenres(_)
distinctGenres(songs) ==
    IF songs = <<>> THEN <<>>
    ELSE LET front == distinctGenres(SubSeq(songs, 1, Len(songs) - 1))
             g == songs[Len(songs)].genre
         IN  IF includes(front, g) THEN front ELSE Append(front, g)

\* sort that leaves the array as it is.
sortSkipped(gs) == gs

\* Array.prototype.sort() without comparator: ascending code-unit order.
RECURSIVE sort(_)
sort(gs) ==
    IF gs = <<>> THEN <<>>
    ELSE LET least == CHOOSE i \in 1..Len(gs) :
                          \A j \in 1..Len(gs) : GenreRank(gs[i]) <= GenreRank(gs[j])
         IN  <<gs[least]>> \o sort(SubSeq(gs, 1, least - 1) \o SubSeq(gs, least + 1, Len(gs)))

getGenres(songs) == sort(distinctGenres(songs))

\* swap that writes only one of the two elements.
swapOneSided(arr, i, j) == [arr EXCEPT ![i] = arr[j]]

\* One pass of the Fisher-Yates loop of shuffleArray from index i (1-based)
\* down to 2: Math.random picks any j in 1..i, elements i and j are swapped.
swap(arr, i, j) == [arr EXCEPT ![i] = arr[j], ![j] = arr[i]]

RECURSIVE shuffleFrom(_, _)
shuffleFrom(arr, i) ==
    IF i <= 1 THEN {arr}
    ELSE UNION { shuffleFrom(swap(arr, i, j), i - 1) : j \in 1..i }

\* Every array shuffleArray can return.
shuffleArray(array) == shuffleFrom(array, Len(array))

\* getAvailableSongs with history left out of usedIds.
getAvailableSongsIgnoringHistory(songs, q, h, cur, selected) ==
    LET usedIds == Ids(q) \cup (IF cur # Null THEN {cur.id} ELSE {})
        available == SelectSeq(songs, LAMBDA song : song.id \notin usedIds)
    IN  IF Len(selected) > 0
        THEN SelectSeq(available, LAMBDA song : includes(selected, song.genre))
        ELSE available

\* getAvailableSongs with the genre filter left out.
getAvailableSongsUnfiltered(songs, q, h, cur, selected) ==
    LET usedIds == Ids(q) \cup Ids(h) \cup (IF cur # Null THEN {cur.id} ELSE {})
    IN  SelectSeq(songs, LAMBDA song : song.id \notin usedIds)

getAvailableSongs(songs, q, h, cur, selected) ==
    LET usedIds == Ids(q) \cup Ids(h) \cup (IF cur # Null THEN {cur.id} ELSE {})
        available == SelectSeq(songs, LAMBDA song : song.id \notin usedIds)
    IN  IF Len(selected) > 0
        THEN SelectSeq(available, LAMBDA song : includes(selected, song.genre))
        ELSE available

\* refillQueue that takes one song fewer than needed.
refillQueueOneFewer(songs, currentQueue, h, cur, selected, minLength) ==
    IF Len(currentQueue) >= minLength
    THEN {currentQueue}
    ELSE LET available == getAvailableSongs(songs, currentQueue, h, cur, selected)
             needed == minLength - Len(currentQueue) - 1
         IN  { currentQueue \o slice(shuffled, 0, needed) :
                 shuffled \in shuffleArray(available) }

\* refillQueue that takes one song more than needed.
refillQueueOneMore(songs, currentQueue, h, cur, selected, minLength) ==
    IF Len(currentQueue) >= minLength
    THEN {currentQueue}
    ELSE LET available == getAvailableSongs(songs, currentQueue, h, cur, selected)
             needed == minLength - Len(currentQueue) + 1
         IN  { currentQueue \o slice(shuffled, 0, needed) :
                 shuffled \in shuffleArray(available) }

\* Every array refillQueue can return (one per outcome of the shuffle).
refillQueue(songs, currentQueue, h, cur, selected, minLength) ==
    IF Len(currentQueue) >= minLength
    THEN {currentQueue}
    ELSE LET available == getAvailableSongs(songs, currentQueue, h, cur, selected)
             needed == minLength - Len(currentQueue)
         IN  { currentQueue \o slice(shuffled, 0, needed) :
                 shuffled \in shuffleArray(available) }

rebuildQueueWithGenreFilter(songs, cur, h, selected, minLength) ==
    refillQueue(songs, <<>>, h, cur, selected, minLength)

\* ------------------------------------------------------------------ state
VARIABLES
    allSongs,        \* useState<Song[]>([])            line 9
    queue,           \* useState<Song[]>([])            line 10
    history,         \* useState<Song[]>([])            line 11
    current,         \* useState<Song | null>(null)     line 12
    genres,          \* useState<Genre[]>([])           line 13
    selectedGenres,  \* useState<Genre[]>([])           line 14
    isLoading,       \* useState(true)                  line 15
    error,           \* useState<string | null>(null)   line 16 (TRUE: set)
    effectPending,   \* the maintainQueueLength effect is due (lines 47-49)
    lastOp,          \* history variable: the last step taken and its argument
    before,          \* history variable: current, queue, history and
                     \* selectedGenres as they were before the last step
    twoBack,         \* history variable: the step before the last one and
                     \* the state before it, kept for the pairs
                     \* playNext; playPrevious and toggle g; toggle g
    returned         \* the value returned by the last direct call of a
                     \* queueUtils function (specification SpecFn only)

vars == <<allSongs, queue, history, current, genres, selectedGenres,
          isLoading, error, effectPending, lastOp, before, twoBack, returned>>

\* A step: the handler or effect that ran, with its songId or genre argument
\* (NoId, NoGenre where it takes none).
NoId == 0 - 1

NoGenre == ""

Op(name, songId, genre) == [name |-> name, songId |-> songId, genre |-> genre]

Snapshot == [current |-> current, queue |-> queue, history |-> history,
             selectedGenres |-> selectedGenres]

EmptySnapshot == [current |-> Null, queue |-> <<>>, history |-> <<>>,
                  selectedGenres |-> <<>>]

NoTwoBack == [op |-> Op("-", NoId, NoGenre), state |-> EmptySnapshot]

\* The history variables after the step op.  For a repeated toggle only the
\* selection before the first toggle is kept.
Record(op) ==
    /\ lastOp' = op
    /\ before' = Snapshot
    /\ twoBack' =
         IF op.name = "playPrevious" /\ lastOp.name = "playNext"
         THEN [op |-> lastOp, state |-> before]
         ELSE IF op.name = "handleGenreChange" /\ lastOp = op
         THEN [op |-> lastOp,
               state |-> [EmptySnapshot EXCEPT
                            !.selectedGenres = before.selectedGenres]]
         ELSE NoTwoBack
    /\ UNCHANGED returned

Init ==
    /\ allSongs = <<>>
    /\ queue = <<>>
    /\ history = <<>>
    /\ current = Null
    /\ genres = <<>>
    /\ selectedGenres = <<>>
    /\ isLoading = TRUE
    /\ error = FALSE
    /\ effectPending = TRUE
    /\ lastOp = Op("mount", NoId, NoGenre)
    /\ before = EmptySnapshot
    /\ twoBack = NoTwoBack
    /\ returned = <<>>

\* InitialQueueEnd one short: slice(1, 10).
InitialQueueEndShort == MinLength

\* --------------------------------------------------------------- the load
\* slice(1, 11) at line 26: the end index is one past the refill length.
InitialQueueEnd == MinLength + 1

\* initializeAppSuccess without setCurrent.
initializeAppSuccessNoCurrent(songs) ==
    /\ isLoading
    /\ allSongs' = songs
    /\ genres' = getGenres(songs)
    /\ queue' = slice(songs, 1, InitialQueueEnd)
    /\ error' = FALSE
    /\ isLoading' = FALSE
    /\ effectPending' = TRUE
    /\ Record(Op("initializeApp", NoId, NoGenre))
    /\ UNCHANGED <<history, selectedGenres, current>>

\* initializeApp, lines 18-38, when fetchSongs resolves with songs.
initializeAppSuccess(songs) ==
    /\ isLoading
    /\ allSongs' = songs
    /\ genres' = getGenres(songs)
    /\ queue' = slice(songs, 1, InitialQueueEnd)
    /\ current' = IF Len(songs) > 0 THEN songs[1] ELSE Null
    /\ error' = FALSE
    /\ isLoading' = FALSE
    /\ effectPending' = TRUE
    /\ Record(Op("initializeApp", NoId, NoGenre))
    /\ UNCHANGED <<history, selectedGenres>>

\* initializeApp that fails after the catalog and the queue were set.
initializeAppFailureAfterSet ==
    /\ isLoading
    /\ \E songs \in Catalogs :
         /\ allSongs' = songs
         /\ queue' = slice(songs, 1, InitialQueueEnd)
    /\ error' = TRUE
    /\ isLoading' = FALSE
    /\ Record(Op("initializeAppFailed", NoId, NoGenre))
    /\ UNCHANGED <<history, current, genres, selectedGenres, effectPending>>

\* initializeApp when fetchSongs throws (lines 30-34).
initializeAppFailure ==
    /\ isLoading
    /\ error' = TRUE
    /\ isLoading' = FALSE
    /\ Record(Op("initializeAppFailed", NoId, NoGenre))
    /\ UNCHANGED <<allSongs, queue, history, current, genres, selectedGenres,
                   effectPending>>

\* ------------------------------------------------------------- the effect
\* maintainQueueLength, lines 40-49.  refillQueue returns a new array, so
\* setQueue replaces the queue dependency and the effect is due again.
maintainQueueLength ==
    /\ effectPending
    /\ IF Len(allSongs) = 0 \/ Len(queue) >= MinLength
       THEN /\ effectPending' = FALSE
            /\ UNCHANGED queue
       ELSE /\ queue' \in refillQueue(allSongs, queue, history, current,
                                      selectedGenres, MinLength)
            /\ effectPending' = TRUE
    /\ Record(Op("maintainQueueLength", NoId, NoGenre))
    /\ UNCHANGED <<allSongs, history, current, genres, selectedGenres,
                   isLoading, error>>

\* ----------------------------------------------------------- the handlers
\* The buttons exist only once the load has succeeded (lines 106-120).
Rendered == ~isLoading /\ ~error

\* toggled that never removes a genre.
toggledAlwaysAppends(prev, genre) == Append(prev, genre)

\* prev.includes(genre) ? prev.filter(g => g !== genre) : [...prev, genre]
toggled(prev, genre) ==
    IF includes(prev, genre)
    THEN SelectSeq(prev, LAMBDA g : g # genre)
    ELSE Append(prev, genre)

\* pushHistory without the slice.
pushHistoryUncapped(cur, prev) == <<cur>> \o prev

\* [current, ...prev].slice(0, 10), lines 69 and 97
pushHistory(cur, prev) == slice(<<cur>> \o prev, 0, HistoryLimit)

\* withoutId with the test inverted.
withoutIdInverted(prev, songId) == SelectSeq(prev, LAMBDA song : song.id = songId)

\* prev.filter(song => song.id !== songId), lines 88 and 101
withoutId(prev, songId) == SelectSeq(prev, LAMBDA song : song.id # songId)

\* handleGenreChange, lines 51-63; the genre buttons are those of genres
\* (lines 173-174).
handleGenreChange(genre) ==
    /\ Rendered
    /\ LET newGenres == toggled(selectedGenres, genre)
       IN  /\ queue' \in rebuildQueueWithGenreFilter(allSongs, current, history,
                                                     newGenres, MinLength)
           /\ selectedGenres' = newGenres
    /\ effectPending' = TRUE
    /\ Record(Op("handleGenreChange", NoId, genre))
    /\ UNCHANGED <<allSongs, history, current, genres, isLoading, error>>

\* playNext, lines 65-74
playNext ==
    /\ Rendered
    /\ IF Len(queue) = 0
       THEN UNCHANGED <<queue, history, current, effectPending>>
       ELSE /\ history' = IF current # Null THEN pushHistory(current, history)
                          ELSE history
            /\ current' = queue[1]
            /\ queue' = Tail(queue)
            /\ effectPending' = TRUE
    /\ Record(Op("playNext", NoId, NoGenre))
    /\ UNCHANGED <<allSongs, genres, selectedGenres, isLoading, error>>

\* playPrevious that drops the song that was playing.
playPreviousDropsCurrent ==
    /\ Rendered
    /\ IF Len(history) = 0
       THEN UNCHANGED <<queue, history, current, effectPending>>
       ELSE /\ queue' = queue
            /\ current' = history[1]
            /\ history' = Tail(history)
            /\ effectPending' = TRUE
    /\ Record(Op("playPrevious", NoId, NoGenre))
    /\ UNCHANGED <<allSongs, genres, selectedGenres, isLoading, error>>

\* playPrevious that puts current at the end of the queue.
playPreviousAppends ==
    /\ Rendered
    /\ IF Len(history) = 0
       THEN UNCHANGED <<queue, history, current, effectPending>>
       ELSE /\ queue' = IF current # Null THEN Append(queue, current) ELSE queue
            /\ current' = history[1]
            /\ history' = Tail(history)
            /\ effectPending' = TRUE
    /\ Record(Op("playPrevious", NoId, NoGenre))
    /\ UNCHANGED <<allSongs, genres, selectedGenres, isLoading, error>>

\* playPrevious, lines 76-85
playPrevious ==
    /\ Rendered
    /\ IF Len(history) = 0
       THEN UNCHANGED <<queue, history, current, effectPending>>
       ELSE /\ queue' = IF current # Null THEN <<current>> \o queue ELSE queue
            /\ current' = history[1]
            /\ history' = Tail(history)
            /\ effectPending' = TRUE
    /\ Record(Op("playPrevious", NoId, NoGenre))
    /\ UNCHANGED <<allSongs, genres, selectedGenres, isLoading, error>>

\* removeFromQueue, lines 87-89
removeFromQueue(songId) ==
    /\ Rendered
    /\ queue' = withoutId(queue, songId)
    /\ effectPending' = TRUE
    /\ Record(Op("removeFromQueue", songId, NoGenre))
    /\ UNCHANGED <<allSongs, history, current, genres, selectedGenres,
                   isLoading, error>>

\* queue.find(song => song.id === songId): the first match, Null for
\* undefined.
find(q, songId) ==
    IF songId \in Ids(q)
    THEN q[CHOOSE i \in 1..Len(q) :
               /\ q[i].id = songId
               /\ \A j \in 1..(i - 1) : q[j].id # songId]
    ELSE Null

\* playFromQueue, lines 91-104
playFromQueue(songId) ==
    /\ Rendered
    /\ LET songToPlay == find(queue, songId)
       IN  IF songToPlay = Null
           THEN UNCHANGED <<queue, history, current, effectPending>>
           ELSE /\ history' = IF current # Null THEN pushHistory(current, history)
                              ELSE history
                /\ current' = songToPlay
                /\ queue' = withoutId(queue, songId)
                /\ effectPending' = TRUE
    /\ Record(Op("playFromQueue", songId, NoGenre))
    /\ UNCHANGED <<allSongs, genres, selectedGenres, isLoading, error>>

Next ==
    \/ \E songs \in Catalogs : initializeAppSuccess(songs)
    \/ initializeAppFailure
    \/ maintainQueueLength
    \/ \E genre \in Range(genres) : handleGenreChange(genre)
    \/ playNext
    \/ playPrevious
    \/ \E songId \in SongIds : removeFromQueue(songId)
    \/ \E songId \in SongIds : playFromQueue(songId)

Spec == Init /\ [][Next]_vars

\* React runs a due effect after the render that made it due, so a pass
\* that stays due is eventually run.
FairSpec == Spec /\ WF_vars(maintainQueueLength)

\* ------------------------------------------- the queueUtils functions alone
\* The sequences without repetition over S of length at most n.
InjSeqs(S, n) ==
    UNION { { s \in [1..k -> S] : \A i, j \in 1..k : s[i] = s[j] => i = j } :
              k \in 0..n }

\* Longest queue passed to a function: the refill length plus one, the
\* length playPrevious produces from a full queue.
MaxQueueArg == MinLength + 1

\* Arguments of the shape the component holds: a catalog, a queue and a
\* history of distinct catalog songs that share none, a current that is in
\* neither (or null), any selection of genres.
InitFn ==
    /\ allSongs \in Catalogs
    /\ queue \in InjSeqs(Range(allSongs), MaxQueueArg)
    /\ history \in InjSeqs(Range(allSongs) \ Range(queue), HistoryLimit)
    /\ current \in {Null} \cup (Range(allSongs) \ (Range(queue) \cup Range(history)))
    /\ selectedGenres \in InjSeqs(Range(GenreUniverse), Len(GenreUniverse))
    /\ genres = <<>>
    /\ isLoading = FALSE
    /\ error = FALSE
    /\ effectPending = FALSE
    /\ lastOp = Op("arguments", NoId, NoGenre)
    /\ before = EmptySnapshot
    /\ twoBack = NoTwoBack
    /\ returned = <<>>

\* A call leaves its arguments as they are.
Call(name) ==
    /\ lastOp' = Op(name, NoId, NoGenre)
    /\ UNCHANGED <<allSongs, queue, history, current, genres, selectedGenres,
                   isLoading, error, effectPending, before, twoBack>>

callGetGenres ==
    /\ returned' = getGenres(allSongs)
    /\ Call("getGenres")

callGetAvailableSongs ==
    /\ returned' = getAvailableSongs(allSongs, queue, history, current,
                                     selectedGenres)
    /\ Call("getAvailableSongs")

callRefillQueue ==
    /\ returned' \in refillQueue(allSongs, queue, history, current,
                                 selectedGenres, MinLength)
    /\ Call("refillQueue")

NextFn ==
    \/ callGetGenres
    \/ callGetAvailableSongs
    \/ callRefillQueue

SpecFn == InitFn /\ [][NextFn]_vars

\* ----------------------------------------------------------- the claims
\* No two entries of s have the same id.
DistinctIds(s) == \A i, j \in 1..Len(s) : s[i].id = s[j].id => i = j

\* The first n entries of s.
FirstN(s, n) == SubSeq(s, 1, Min(n, Len(s)))

\* s without its entry at index i.
DropAt(s, i) == SubSeq(s, 1, i - 1) \o SubSeq(s, i + 1, Len(s))

\* The last step was the handler name.
Did(name) == lastOp.name = name

\* C1: no song id occurs twice in {current} u queue u history: queue and
\* history have no duplicate ids, share no id, and neither holds current.
C1_NoDuplicateIds ==
    /\ DistinctIds(queue)
    /\ DistinctIds(history)
    /\ Ids(queue) \cap Ids(history) = {}
    /\ current # Null => current.id \notin Ids(queue) \cup Ids(history)

\* C1 witness: a replenishment pass has filled the queue while history is
\* full and a song is playing.
C1_Witness ==
    /\ Did("maintainQueueLength")
    /\ Len(queue) > Len(before.queue)
    /\ Len(history) = HistoryLimit
    /\ current # Null

\* C2 as claimed: the queue never holds more entries than the refill length.
C2_QueueAtMostTarget == Len(queue) <= MinLength

\* C2 as amended: load, a toggle and a replenishment pass leave at most the
\* refill length in the queue (a pass leaves a queue that is already that
\* long as it is); playNext, removeFromQueue and playFromQueue never
\* lengthen it; playPrevious lengthens it by at most one, and does so on a
\* full queue when a song is playing.
C2_OnlyGoBackExceedsTarget ==
    /\ (Did("initializeApp") \/ Did("handleGenreChange"))
         => Len(queue) <= MinLength
    /\ Did("maintainQueueLength")
         => IF Len(before.queue) >= MinLength
            THEN queue = before.queue
            ELSE Len(queue) <= MinLength
    /\ (Did("playNext") \/ Did("removeFromQueue") \/ Did("playFromQueue"))
         => Len(queue) <= Len(before.queue)
    /\ Did("playPrevious") => Len(queue) <= Len(before.queue) + 1
    /\ (Did("playPrevious") /\ Len(before.queue) = MinLength
          /\ before.current # Null /\ before.history # <<>>)
         => Len(queue) = MinLength + 1

\* C2 witness: playPrevious ran on a full queue with a song playing.
C2_Witness ==
    /\ Did("playPrevious")
    /\ Len(before.queue) = MinLength
    /\ before.current # Null
    /\ Len(before.history) > 0
    /\ Len(queue) > MinLength

\* C3: history never holds more than the cap, and only playNext and
\* playFromQueue lengthen it.
C3_HistoryCapped ==
    /\ Len(history) <= HistoryLimit
    /\ Len(history) > Len(before.history)
         => Did("playNext") \/ Did("playFromQueue")

\* C3 witness: playNext pushed the playing song onto a full history.
C3_Witness ==
    /\ Did("playNext")
    /\ Len(before.history) = HistoryLimit
    /\ before.current # Null
    /\ Len(before.queue) > 0
    /\ Len(history) = HistoryLimit

\* What C4 says history is after an advance from the state b.
AdvancedHistory(b) ==
    IF b.current # Null
    THEN FirstN(<<b.current>> \o b.history, HistoryLimit)
    ELSE b.history

\* C4: playNext on an empty queue changes nothing; otherwise current is the
\* old queue[0], queue the old queue[1:], selectedGenres is unchanged, and
\* the old current, if any, is prepended to history, cut to the cap.
C4_Advance ==
    Did("playNext") =>
        IF before.queue = <<>>
        THEN Snapshot = before
        ELSE /\ current = Head(before.queue)
             /\ queue = Tail(before.queue)
             /\ selectedGenres = before.selectedGenres
             /\ history = AdvancedHistory(before)
             /\ before.current # Null =>
                    /\ history[1] = before.current
                    /\ Len(history) = Min(HistoryLimit, Len(before.history) + 1)
             /\ before.current = Null => history = before.history

\* C4 witness: playNext ran with a non-empty queue, a song playing and a
\* full history.
C4_Witness ==
    /\ Did("playNext")
    /\ before.queue # <<>>
    /\ before.current # Null
    /\ Len(before.history) = HistoryLimit

\* C5: playPrevious on an empty history changes nothing; otherwise current
\* is the old history[0], history the old history[1:], selectedGenres is
\* unchanged, and the old current, if any, is put at the front of queue.
C5_GoBack ==
    Did("playPrevious") =>
        IF before.history = <<>>
        THEN Snapshot = before
        ELSE /\ current = Head(before.history)
             /\ history = Tail(before.history)
             /\ selectedGenres = before.selectedGenres
             /\ queue = IF before.current # Null
                        THEN <<before.current>> \o before.queue
                        ELSE before.queue

\* C5 witness: playPrevious ran with a non-empty history, a song playing
\* and at least two songs queued.
C5_Witness ==
    /\ Did("playPrevious")
    /\ before.history # <<>>
    /\ before.current # Null
    /\ Len(before.queue) >= 2
\* C6 as claimed: playPrevious right after playNext, from a state with a
\* non-empty queue and a song playing, restores current, queue and history.
C6_GoBackInvertsAdvance ==
    (twoBack.op.name = "playNext" /\ Did("playPrevious")
       /\ twoBack.state.queue # <<>> /\ twoBack.state.current # Null)
    => /\ current = twoBack.state.current
       /\ queue = twoBack.state.queue
       /\ history = twoBack.state.history

\* C6 as amended: current and queue are restored; history is restored when
\* it held fewer entries than the cap, and is left with its first cap - 1
\* entries when it was full (playNext dropped the oldest one).
C6_GoBackInvertsAdvanceBelowCap ==
    (twoBack.op.name = "playNext" /\ Did("playPrevious")
       /\ twoBack.state.queue # <<>> /\ twoBack.state.current # Null)
    => /\ current = twoBack.state.current
       /\ queue = twoBack.state.queue
       /\ selectedGenres = twoBack.state.selectedGenres
       /\ history = IF Len(twoBack.state.history) < HistoryLimit
                    THEN twoBack.state.history
                    ELSE FirstN(twoBack.state.history, HistoryLimit - 1)

\* C6 witness: playNext then playPrevious ran from a state with a song
\* queued, a song playing and a full history, whose oldest entry is lost.
C6_Witness ==
    /\ twoBack.op.name = "playNext"
    /\ Did("playPrevious")
    /\ twoBack.state.queue # <<>>
    /\ twoBack.state.current # Null
    /\ Len(twoBack.state.history) = HistoryLimit
    /\ Len(history) = HistoryLimit - 1

\* C7: playFromQueue of an id that is not queued changes nothing and sets
\* no error; otherwise current is the queued song of that id, queue loses
\* exactly that entry, and history is updated as by an advance.  With the
\* id of queue[0] the result is that of an advance.
C7_PlayFromQueue ==
    Did("playFromQueue") =>
        /\ ~error
        /\ IF lastOp.songId \notin Ids(before.queue)
           THEN Snapshot = before
           ELSE /\ \E i \in 1..Len(before.queue) :
                      /\ before.queue[i].id = lastOp.songId
                      /\ current = before.queue[i]
                      /\ queue = DropAt(before.queue, i)
                /\ history = AdvancedHistory(before)
                /\ selectedGenres = before.selectedGenres
        /\ (before.queue # <<>> /\ lastOp.songId = Head(before.queue).id)
             => /\ current = Head(before.queue)
                /\ queue = Tail(before.queue)
                /\ history = AdvancedHistory(before)

\* C7 witness: playFromQueue picked a song that was not at the front of the
\* queue while a song was playing and history was not empty.
C7_Witness ==
    /\ Did("playFromQueue")
    /\ Len(before.queue) >= 2
    /\ lastOp.songId = before.queue[2].id
    /\ before.current # Null
    /\ before.history # <<>>

\* C8: removeFromQueue changes only queue: the entry of that id is gone, the
\* others keep their order; with an absent id the queue keeps its contents.
C8_RemoveFromQueue ==
    Did("removeFromQueue") =>
        /\ current = before.current
        /\ history = before.history
        /\ selectedGenres = before.selectedGenres
        /\ IF lastOp.songId \in Ids(before.queue)
           THEN \E i \in 1..Len(before.queue) :
                    /\ before.queue[i].id = lastOp.songId
                    /\ queue = DropAt(before.queue, i)
           ELSE queue = before.queue

\* C8 witness: removeFromQueue removed a song from the middle of the queue.
C8_Witness ==
    /\ Did("removeFromQueue")
    /\ Len(before.queue) >= 3
    /\ lastOp.songId = before.queue[2].id
    /\ Len(queue) = Len(before.queue) - 1

\* C8 witness for the absent id: the queue kept its contents.
C8_WitnessAbsent ==
    /\ Did("removeFromQueue")
    /\ lastOp.songId = AbsentId
    /\ before.queue # <<>>

\* The catalog songs a rebuilt queue may hold: not current, not in history,
\* and of a selected genre when a genre is selected.
Eligible ==
    { s \in Range(allSongs) :
        /\ s # current
        /\ s \notin Range(history)
        /\ selectedGenres # <<>> => s.genre \in Range(selectedGenres) }

\* C9: a toggle flips the genre's membership in selectedGenres, keeps
\* current and history, and replaces queue by distinct eligible songs, as
\* many as the refill length allows; no non-matching song stays queued.
C9_ToggleGenre ==
    Did("handleGenreChange") =>
        /\ Range(selectedGenres) =
             IF lastOp.genre \in Range(before.selectedGenres)
             THEN Range(before.selectedGenres) \ {lastOp.genre}
             ELSE Range(before.selectedGenres) \cup {lastOp.genre}
        /\ current = before.current
        /\ history = before.history
        /\ DistinctIds(queue)
        /\ Range(queue) \subseteq Eligible
        /\ Len(queue) = Min(MinLength, Cardinality(Eligible))
        /\ \A s \in Range(before.queue) :
             (selectedGenres # <<>> /\ s.genre \notin Range(selectedGenres))
               => s \notin Range(queue)

\* C9 witness: a toggle selected a genre while a song of another genre was
\* queued, and fewer matching songs than the refill length were left.
C9_Witness ==
    /\ Did("handleGenreChange")
    /\ lastOp.genre \in Range(selectedGenres)
    /\ \E s \in Range(before.queue) : s.genre \notin Range(selectedGenres)
    /\ queue # <<>>
    /\ Len(queue) < MinLength

\* C10: the same genre toggled twice in a row leaves the set of selected
\* genres as it was, and every queued song is of a selected genre when one
\* is selected.
C10_ToggleTwice ==
    (twoBack.op.name = "handleGenreChange" /\ Did("handleGenreChange"))
    => /\ Range(selectedGenres) = Range(twoBack.state.selectedGenres)
       /\ selectedGenres # <<>> =>
            \A s \in Range(queue) : s.genre \in Range(selectedGenres)

\* C10 witness: a genre was toggled off and on again; the selection holds
\* the same genres in another order, and the queue is not empty.
C10_Witness ==
    /\ twoBack.op.name = "handleGenreChange"
    /\ Did("handleGenreChange")
    /\ twoBack.op = lastOp
    /\ selectedGenres # twoBack.state.selectedGenres
    /\ Len(selectedGenres) = 2
    /\ queue # <<>>

\* C11 as claimed: for every queue, refillQueue returns min(refill length,
\* queue length + number of available songs) songs, the queue being its
\* first entries, and returns a queue of at least the refill length as is.
C11_RefillLength ==
    Did("refillQueue") =>
        LET availableCount == Len(getAvailableSongs(allSongs, queue, history,
                                                    current, selectedGenres))
        IN  /\ Len(returned) = Min(MinLength, Len(queue) + availableCount)
            /\ FirstN(returned, Len(queue)) = queue
            /\ Len(queue) >= MinLength => returned = queue

\* C11 as amended: the length is min(refill length, queue length + number
\* of available songs) for a queue of at most the refill length; a longer
\* queue is returned as is, so the result keeps the queue's length.
C11_RefillLengthUpToTarget ==
    Did("refillQueue") =>
        LET availableCount == Len(getAvailableSongs(allSongs, queue, history,
                                                    current, selectedGenres))
        IN  /\ Len(queue) <= MinLength
               => Len(returned) = Min(MinLength, Len(queue) + availableCount)
            /\ Len(queue) > MinLength => Len(returned) = Len(queue)
            /\ FirstN(returned, Len(queue)) = queue
            /\ Len(queue) >= MinLength => returned = queue

\* C11 witness: refillQueue appended to a short, non-empty queue.
C11_WitnessShort ==
    /\ Did("refillQueue")
    /\ queue # <<>>
    /\ Len(queue) < MinLength
    /\ Len(returned) > Len(queue)

\* C11 witness: refillQueue was given a queue longer than the refill length
\* while songs were available.
C11_Witness ==
    /\ Did("refillQueue")
    /\ Len(queue) > MinLength
    /\ getAvailableSongs(allSongs, queue, history, current, selectedGenres) # <<>>

\* The songs a replenishment pass appended to the queue.
Appended == SubSeq(queue, Len(before.queue) + 1, Len(queue))

\* C12: a replenishment pass keeps the queue it found as a prefix, and every
\* song it appends is a catalog song that was not queued, is not in history
\* and is not current, is appended once, and is of a selected genre when a
\* genre is selected.
C12_AppendedSongs ==
    Did("maintainQueueLength") =>
        /\ FirstN(queue, Len(before.queue)) = before.queue
        /\ DistinctIds(Appended)
        /\ \A s \in Range(Appended) :
             /\ s \in Range(allSongs)
             /\ s.id \notin Ids(before.queue)
             /\ s.id \notin Ids(history)
             /\ current # Null => s.id # current.id
             /\ selectedGenres # <<>> => s.genre \in Range(selectedGenres)

\* C12 witness: a pass appended two songs while a genre was selected and a
\* song of another genre was neither queued, played nor playing.
C12_Witness ==
    /\ Did("maintainQueueLength")
    /\ Len(Appended) >= 2
    /\ selectedGenres # <<>>
    /\ \E s \in Range(allSongs) :
         /\ s.genre \notin Range(selectedGenres)
         /\ s # current
         /\ s \notin Range(queue) \cup Range(history)

\* The index of song s in the catalog.
CatalogIndex(s) == CHOOSE i \in 1..Len(allSongs) : allSongs[i] = s

\* C13: getAvailableSongs returns exactly the catalog songs whose id is not
\* in queue, not in history and not current's, of a selected genre when a
\* genre is selected, each once and in catalog order.
C13_AvailableSongs ==
    Did("getAvailableSongs") =>
        /\ Range(returned) =
             { s \in Range(allSongs) :
                 /\ s.id \notin Ids(queue)
                 /\ s.id \notin Ids(history)
                 /\ current # Null => s.id # current.id
                 /\ selectedGenres # <<>> => s.genre \in Range(selectedGenres) }
        /\ \A i, j \in 1..Len(returned) :
             i < j => CatalogIndex(returned[i]) < CatalogIndex(returned[j])
        /\ \A s \in Range(returned) :
             s.id \notin Ids(queue) \cup Ids(history) \cup {current.id}

\* C13 witness: getAvailableSongs returned a song while it left out a
\* queued song, a played song and the playing song, with one genre selected
\* and a catalog that holds a song of the other genre.
C13_Witness ==
    /\ Did("getAvailableSongs")
    /\ Len(returned) >= 1
    /\ queue # <<>>
    /\ history # <<>>
    /\ current # Null
    /\ Len(selectedGenres) = 1
    /\ \E s \in Range(allSongs) : s.genre \notin Range(selectedGenres)

\* C13 witness: a free song of a genre that is not selected was left out.
C13_WitnessFiltered ==
    /\ Did("getAvailableSongs")
    /\ returned # <<>>
    /\ selectedGenres # <<>>
    /\ \E s \in Range(allSongs) :
         /\ s.genre \notin Range(selectedGenres)
         /\ s # current
         /\ s \notin Range(queue) \cup Range(history)

\* C16: getGenres returns exactly the genres of the catalog, in strictly
\* ascending order, and returns the same for every reordering of the
\* catalog.
C16_Genres ==
    Did("getGenres") =>
        /\ Range(returned) = { allSongs[i].genre : i \in 1..Len(allSongs) }
        /\ \A i, j \in 1..Len(returned) :
             i < j => GenreRank(returned[i]) < GenreRank(returned[j])
        /\ \A reordered \in shuffleArray(allSongs) :
             getGenres(reordered) = returned

\* C16 witness: getGenres was given a catalog whose first song is of the
\* later genre and which holds each genre twice.
C16_Witness ==
    /\ Did("getGenres")
    /\ Len(returned) = 2
    /\ allSongs[1].genre = returned[2]
    /\ Len(allSongs) >= 4
    /\ allSongs[2].genre = returned[2]
    /\ allSongs[Len(allSongs)].genre = allSongs[Len(allSongs) - 1].genre

\* The songs a replenishment pass could append now.
Available == getAvailableSongs(allSongs, queue, history, current, selectedGenres)

\* The catalog is loaded and the queue is shorter than the refill length.
Underfull == Rendered /\ allSongs # <<>> /\ Len(queue) < MinLength

\* C14: whenever the catalog is loaded and the queue is shorter than the
\* refill length, a state follows in which the queue has the refill length
\* or no catalog song is available.
C14_Replenished ==
    Underfull ~> (Len(queue) = MinLength \/ Available = <<>>)

\* C14 witness: a pass found a short queue and filled it to the refill
\* length after a user removed a song.
C14_Witness ==
    /\ Did("maintainQueueLength")
    /\ Len(before.queue) < MinLength
    /\ Len(queue) = MinLength
    /\ history # <<>>

\* C15: a failed load sets the error with the catalog, current, queue and
\* history empty; from then on the error stays set, the load does not run
\* again and current, queue, history and the catalog stay as they are.
C15_LoadFailureTerminal ==
    [][ /\ error' => /\ allSongs' = <<>>
                     /\ current' = Null
                     /\ queue' = <<>>
                     /\ history' = <<>>
                     /\ ~isLoading'
        /\ error => /\ error'
                    /\ lastOp'.name \notin {"initializeApp", "initializeAppFailed"}
                    /\ <<allSongs, current, queue, history>>'
                         = <<allSongs, current, queue, history>> ]_vars

\* C15 witness: the load failed and the effect ran afterwards.
C15_Witness ==
    /\ error
    /\ Did("maintainQueueLength")
    /\ ~effectPending

\* C17: the replenishment quiesces: every pass of the effect lengthens the
\* queue or leaves no further pass due (the queue's length is bounded, so
\* only finitely many passes run).
C17_Quiesces ==
    Did("maintainQueueLength") =>
        Len(queue) > Len(before.queue) \/ ~effectPending

\* C18: after a successful load current is the first song of the catalog
\* (null for an empty catalog), queue the songs after it in catalog order,
\* up to the refill length (all of them when they are that few), history
\* and selectedGenres are empty.
C18_InitialState ==
    Did("initializeApp") =>
        /\ current = IF allSongs = <<>> THEN Null ELSE Head(allSongs)
        /\ Len(queue) = Min(MinLength, IF allSongs = <<>> THEN 0
                                       ELSE Len(allSongs) - 1)
        /\ \A i \in 1..Len(queue) : queue[i] = allSongs[i + 1]
        /\ Len(allSongs) <= MinLength + 1
             => Range(queue) = Range(allSongs) \ {current}
        /\ allSongs # <<>> => current \in Range(allSongs)
        /\ history = <<>>
        /\ selectedGenres = <<>>

\* C18 witness: a catalog with more songs than current and a full queue
\* take was loaded.
C18_Witness ==
    /\ Did("initializeApp")
    /\ Len(allSongs) > MinLength + 1
    /\ Len(queue) = MinLength

\* C18 witness: a catalog that fits was loaded: the queue holds every song
\* but the first.
C18_WitnessSmall ==
    /\ Did("initializeApp")
    /\ Len(allSongs) = MinLength + 1
    /\ Len(queue) = MinLength

\* The songs of q whose genre is not selected, when a genre is selected.
NonMatching(q, selected) ==
    IF selected = <<>> THEN {}
    ELSE { s \in Range(q) : s.genre \notin Range(selected) }

\* C19 as claimed: whenever a genre is selected, every queued song is of a
\* selected genre.
C19_QueueMatchesFilter == NonMatching(queue, selectedGenres) = {}

\* C19 as amended: a toggle leaves no queued song of a genre that is not
\* selected; no other step adds one, except playPrevious, which adds the
\* song that was playing when its genre is not selected.
C19_OnlyGoBackBreaksFilter ==
    /\ Did("handleGenreChange") => NonMatching(queue, selectedGenres) = {}
    /\ (Did("maintainQueueLength") \/ Did("playNext")
          \/ Did("removeFromQueue") \/ Did("playFromQueue"))
         => NonMatching(queue, selectedGenres)
              \subseteq NonMatching(before.queue, before.selectedGenres)
    /\ Did("playPrevious")
         => /\ NonMatching(queue, selectedGenres)
                 \subseteq NonMatching(before.queue, before.selectedGenres)
                             \cup {before.current}
            /\ (before.history # <<>> /\ before.current # Null
                  /\ selectedGenres # <<>>
                  /\ before.current.genre \notin Range(selectedGenres))
                 => before.current \in NonMatching(queue, selectedGenres)

\* C19 witness: playPrevious put a song of a genre that is not selected at
\* the front of a queue of selected songs.
C19_Witness ==
    /\ Did("playPrevious")
    /\ selectedGenres # <<>>
    /\ NonMatching(before.queue, before.selectedGenres) = {}
    /\ before.queue # <<>>
    /\ NonMatching(queue, selectedGenres) = {Head(queue)}

\* C20: once a non-empty catalog is loaded, current is never null.
C20_CurrentNeverNull ==
    (Rendered /\ allSongs # <<>>) => current # Null

\* C20 witness: playPrevious ran after the history had been filled, with a
\* non-empty catalog, and a song is playing.
C20_Witness ==
    /\ Did("playPrevious")
    /\ Len(before.history) = HistoryLimit
    /\ allSongs # <<>>
    /\ current # Null

\* C20 witness: with an empty catalog current is null after the load.
C20_WitnessEmpty ==
    /\ Rendered
    /\ allSongs = <<>>
    /\ current = Null
    /\ Did("playNext")

=============================================================================
